---- MODULE Spec2Model ----
(***************************************************************************)
(* Z85 codec (package z85): Encode, Decode, the two lookup tables and the  *)
(* two error kinds.  Texts are Go strings, i.e. sequences of bytes; they   *)
(* are modelled as sequences of character codes 0..255.                    *)
(***************************************************************************)
EXTENDS Integers, Sequences, FiniteSets, TLC

(* ---------------------------- bounds ----------------------------------- *)

\* longest byte input drawn from ByteSamples
MaxWideLen == 4
\* longest byte input drawn from the two-valued LongBytes
MaxLongLen == 8
\* longest text drawn from CharSamples
MaxTextLen == 5
\* longest text drawn from the three-valued LongChars
MaxLongTextLen == 10
\* number of calls running concurrently in SpecConc
NumCalls == 2

(* ------------------------ program constants ---------------------------- *)

codeSize == 85
byteChunkSize == 4
byteChunkMask == byteChunkSize - 1
byteChunkShift == 2
encodedChunkSize == 5
\* '!'
decodeOffset == 33
ivEc == 255

\* the number of values of a byte
ByteMod == 256

\* var encodeTable = `0123...@%$#`, as character codes
encodeTableLiteral ==
  << 48, 49, 50, 51, 52, 53, 54, 55, 56, 57,
     97, 98, 99, 100, 101, 102, 103, 104, 105, 106,
     107, 108, 109, 110, 111, 112, 113, 114, 115, 116,
     117, 118, 119, 120, 121, 122, 65, 66, 67, 68,
     69, 70, 71, 72, 73, 74, 75, 76, 77, 78,
     79, 80, 81, 82, 83, 84, 85, 86, 87, 88,
     89, 90, 46, 45, 58, 43, 61, 94, 33, 47,
     42, 63, 38, 60, 62, 40, 41, 91, 93, 123,
     125, 64, 37, 36, 35 >>

\* decodeTable with the entries of '(' and ')' exchanged
decodeTableExchanged ==
  << 68, ivEc, 84, 83, 82, 72, ivEc,
     76, 75, 70, 65, ivEc, 63, 62, 69,
     0, 1, 2, 3, 4, 5, 6, 7,
     8, 9, 64, ivEc, 73, 66, 74, 71,
     81, 36, 37, 38, 39, 40, 41, 42,
     43, 44, 45, 46, 47, 48, 49, 50,
     51, 52, 53, 54, 55, 56, 57, 58,
     59, 60, 61, 77, ivEc, 78, 67, ivEc,
     ivEc, 10, 11, 12, 13, 14, 15, 16,
     17, 18, 19, 20, 21, 22, 23, 24,
     25, 26, 27, 28, 29, 30, 31, 32,
     33, 34, 35, 79, ivEc, 80 >>

\* var decodeTable = []byte{...}, the hexadecimal literals in decimal
decodeTableLiteral ==
  << 68, ivEc, 84, 83, 82, 72, ivEc,
     75, 76, 70, 65, ivEc, 63, 62, 69,
     0, 1, 2, 3, 4, 5, 6, 7,
     8, 9, 64, ivEc, 73, 66, 74, 71,
     81, 36, 37, 38, 39, 40, 41, 42,
     43, 44, 45, 46, 47, 48, 49, 50,
     51, 52, 53, 54, 55, 56, 57, 58,
     59, 60, 61, 77, ivEc, 78, 67, ivEc,
     ivEc, 10, 11, 12, 13, 14, 15, 16,
     17, 18, 19, 20, 21, 22, 23, 24,
     25, 26, 27, 28, 29, 30, 31, 32,
     33, 34, 35, 79, ivEc, 80 >>

\* var decodeMaxValue = byte(len(decodeTable)) + decodeOffset - 1  (byte arithmetic)
decodeMaxValue == ((Len(decodeTableLiteral) % ByteMod) + decodeOffset - 1) % ByteMod

(* --------------------------- Go primitives ----------------------------- *)

RECURSIVE BitAnd(_, _)
\* x & y on unsigned integers
BitAnd(x, y) ==
  IF x = 0 \/ y = 0 THEN 0
  ELSE ((x % 2) * (y % 2)) + 2 * BitAnd(x \div 2, y \div 2)

RECURSIVE Pow2(_)
Pow2(n) == IF n = 0 THEN 1 ELSE 2 * Pow2(n - 1)

\* x >> n on unsigned integers
ShiftRight(x, n) == x \div Pow2(n)

\* make([]byte, n): n zero bytes
MakeBytes(n) == [k \in 1..n |-> 0]

(* A uint32 does not fit the integers of the model checker, so a number n  *)
(* is held as the pair <<hi, lo>> with n = hi * 2^16 + lo and lo < 2^16.   *)
(* It is a uint32 when hi < 2^16 too; a product that has not yet been cut  *)
(* to 32 bits has hi >= 2^16.                                              *)
Half == ByteMod * ByteMod

\* x * k + d, not cut to 32 bits (k and d below 2^8)
WideMulAdd(x, k, d) ==
  LET lo == x[2] * k + d IN <<x[1] * k + (lo \div Half), lo % Half>>

\* a number cut to its low 32 bits: the uint32 the hardware keeps
Wrap32(w) == <<w[1] % Half, w[2]>>

\* x / k on uint32 (0 < k < 2^8), by long division
U32Div(x, k) == <<x[1] \div k, (((x[1] % k) * Half) + x[2]) \div k>>

\* x * k on uint32
U32Mul(x, k) == Wrap32(WideMulAdd(x, k, 0))

\* x - y on uint32
U32Sub(x, y) ==
  LET lo == x[2] - y[2]
      borrow == IF lo < 0 THEN 1 ELSE 0
  IN <<(x[1] - y[1] - borrow) % Half, lo % Half>>

\* a uint32 used as an index
U32ToInt(x) == x[1] * Half + x[2]

U32Zero == <<0, 0>>

\* binary.BigEndian.Uint32(b) for a 4-byte slice b
BigEndianUint32(b) == <<b[1] * ByteMod + b[2], b[3] * ByteMod + b[4]>>

\* the write with the least significant byte first
LittleEndianPutUint32(buf, off, v) ==
  [k \in 1..Len(buf) |->
     IF k = off + 1 THEN v[2] % ByteMod
     ELSE IF k = off + 2 THEN v[2] \div ByteMod
     ELSE IF k = off + 3 THEN v[1] % ByteMod
     ELSE IF k = off + 4 THEN v[1] \div ByteMod
     ELSE buf[k]]

\* binary.BigEndian.PutUint32(buf[off:], v): the buffer after the write
BigEndianPutUint32(buf, off, v) ==
  [k \in 1..Len(buf) |->
     IF k = off + 1 THEN v[1] \div ByteMod
     ELSE IF k = off + 2 THEN v[1] % ByteMod
     ELSE IF k = off + 3 THEN v[2] \div ByteMod
     ELSE IF k = off + 4 THEN v[2] % ByteMod
     ELSE buf[k]]

(* ------------------------------ errors --------------------------------- *)

\* the nil error
NilErr == [type |-> "nil", divisor |-> 0, position |-> 0, value |-> 0]

\* ErrInvalidLength(n): a value of type ErrInvalidLength (a byte)
ErrInvalidLength(n) ==
  [type |-> "ErrInvalidLength", divisor |-> n % ByteMod, position |-> 0, value |-> 0]

\* &ErrInvalidByte{position: pos, value: c}
ErrInvalidByte(pos, c) ==
  [type |-> "*ErrInvalidByte", divisor |-> 0, position |-> pos, value |-> c]

\* errors.As(err, &ErrInvalidLength): neither error type wraps another error,
\* so the chain is err alone and the match is on its dynamic type; nil gives false
IsErrInvalidLength(e) == e.type = "ErrInvalidLength"

\* a predicate that takes every error for an ErrInvalidByte
IsErrInvalidByteAnyError(e) == e.type # "nil"

\* errors.As(err, &*ErrInvalidByte)
IsErrInvalidByte(e) == e.type = "*ErrInvalidByte"

(* ------------------------------- inputs -------------------------------- *)

\* all sequences over S of length 0..n
SeqsUpTo(S, n) == UNION {[1..k -> S] : k \in 0..n}

\* byte values the short inputs are drawn from
ByteSamples == {0, 1, 85, 128, 255}
\* byte values the multi-chunk inputs are drawn from
LongBytes == {0, 255}
\* characters the short texts are drawn from:
\* ' ' (below '!'), '#' (digit 84), '%' (digit 82), ',' (unassigned), '0' (digit 0),
\* '}' (the largest code of the table), '~' (above '}')
CharSamples == {32, 35, 37, 44, 48, 125, 126}
\* characters the multi-chunk texts are drawn from
LongChars == {48, 44}

\* byte inputs of z85_test.go and of the README
clearTheOne == <<134, 79, 210, 111, 181, 89, 247, 91>>
clearTheTwo == <<171, 205, 239, 170, 85, 51, 17, 0>>
ByteVectors ==
  { clearTheOne, clearTheTwo, SubSeq(clearTheOne, 3, 5), <<91, 155, 241, 64>>,
    <<62, 220, 112, 210, 191, 241, 1, 27>> }

\* "HelloWorld"
encodedTheOne == <<72, 101, 108, 108, 111, 87, 111, 114, 108, 100>>
\* "TiHakrwLi!"
encodedTheTwo == <<84, 105, 72, 97, 107, 114, 119, 76, 105, 33>>
\* "khpb9ZWRsz"
encodedTheThree == <<107, 104, 112, 98, 57, 90, 87, 82, 115, 122>>
TextVectors ==
  { encodedTheOne, encodedTheThree,
    \* "1234", "123~5", "123455432112,45"
    <<49, 50, 51, 52>>, <<49, 50, 51, 126, 53>>,
    <<49, 50, 51, 52, 53, 53, 52, 51, 50, 49, 49, 50, 44, 52, 53>>,
    \* "%nSc0" (2^32 - 1), "%nSc1" (2^32), "00000%nSc1"
    <<37, 110, 83, 99, 48>>, <<37, 110, 83, 99, 49>>,
    <<48, 48, 48, 48, 48, 37, 110, 83, 99, 49>>,
    \* texts holding the bytes 0x00, 0xff and '!' - 1
    <<48, 48, 0, 48, 48>>, <<48, 255, 48, 48, 48>>, <<48, 48, 48, 48, 32, 126>>,
    <<72, 101, 108, 108, 111, 87, 111, 114, 108, 255>> }

EncodeInputs ==
  ByteVectors \cup SeqsUpTo(ByteSamples, MaxWideLen) \cup SeqsUpTo(LongBytes, MaxLongLen)

DecodeInputs ==
  TextVectors \cup SeqsUpTo(CharSamples, MaxTextLen) \cup SeqsUpTo(LongChars, MaxLongTextLen)

\* inputs of the concurrent calls
ConcEncodeInputs == {clearTheOne, SubSeq(clearTheOne, 3, 5), <<>>}
ConcDecodeInputs == {encodedTheOne, <<49, 50, 51, 126, 53>>, <<49, 50, 51, 52>>}

(* ------------------------------- state --------------------------------- *)

VARIABLES
  encodeTable,   \* package variable encodeTable
  decodeTable,   \* package variable decodeTable
  calls          \* the calls in progress: call id -> the call's frame

vars == <<encodeTable, decodeTable, calls>>

\* The frame of a call that has just been entered.  input is the caller's
\* argument (the backing array of the slice, or the string); source and
\* destination are the offsets at which the slices source and destination
\* start in input and in result.  testSlice and chained belong to the caller
\* (TestGeneral): the bytes whose encoding is being decoded.  reencoded marks
\* an Encode of the bytes Decode returned for the text kept in testSlice.
NewCall(kind, input, testSlice, chained) ==
  [ kind |-> kind, input |-> input, source |-> 0, chunkCount |-> 0,
    result |-> <<>>, destination |-> 0, chunkIndex |-> 0, i |-> 0, value |-> U32Zero,
    pc |-> "start", ret |-> <<>>, err |-> NilErr,
    testSlice |-> testSlice, chained |-> chained, reencoded |-> FALSE ]

Init ==
  /\ encodeTable = encodeTableLiteral
  /\ decodeTable = decodeTableLiteral
  /\ \/ \E b \in EncodeInputs : calls = [p \in 1..1 |-> NewCall("Encode", b, <<>>, FALSE)]
     \/ \E t \in DecodeInputs : calls = [p \in 1..1 |-> NewCall("Decode", t, <<>>, FALSE)]

InitConc ==
  /\ encodeTable = encodeTableLiteral
  /\ decodeTable = decodeTableLiteral
  /\ calls \in [1..NumCalls ->
        {NewCall("Encode", b, <<>>, FALSE) : b \in ConcEncodeInputs}
        \cup {NewCall("Decode", t, <<>>, FALSE) : t \in ConcDecodeInputs}]

\* call p returns ret and err
Return(p, ret, err) ==
  calls' = [calls EXCEPT ![p].pc = "done", ![p].ret = ret, ![p].err = err]

(* ------------------------------- Encode -------------------------------- *)

\* the length check with the chunk size in place of the mask
EncodeLengthInvalidBySize(sourceLen) == BitAnd(sourceLen, byteChunkSize) # 0

\* (sourceLen & byteChunkMask) != 0
EncodeLengthInvalid(sourceLen) == BitAnd(sourceLen, byteChunkMask) # 0

\* value / codeSize in uint32
EncodeValueDiv(value) == U32Div(value, codeSize)

\* value - (valueDiv * codeSize) in uint32: the index into encodeTable
EncodeDigitIndex(value) ==
  U32ToInt(U32Sub(value, U32Mul(EncodeValueDiv(value), codeSize)))

\* lines 87-95: the length check and the allocation of the result
EncodeEnter(p) ==
  LET c == calls[p]
      sourceLen == Len(c.input)
      chunkCount == ShiftRight(sourceLen, byteChunkShift)
  IN /\ c.kind = "Encode" /\ c.pc = "start"
     /\ IF EncodeLengthInvalid(sourceLen)
        THEN Return(p, <<>>, ErrInvalidLength(byteChunkSize))
        ELSE calls' = [calls EXCEPT ![p].chunkCount = chunkCount,
                                    ![p].result = MakeBytes(sourceLen + chunkCount),
                                    ![p].destination = 0,
                                    ![p].chunkIndex = 0,
                                    ![p].pc = "encodeLoop"]
     /\ UNCHANGED <<encodeTable, decodeTable>>

\* lines 96-97: the loop test and the read of the next 4 bytes
EncodeChunkBegin(p) ==
  LET c == calls[p] IN
  /\ c.kind = "Encode" /\ c.pc = "encodeLoop" /\ c.chunkIndex < c.chunkCount
  /\ calls' = [calls EXCEPT
        ![p].value = BigEndianUint32(SubSeq(c.input, c.source + 1, c.source + byteChunkSize)),
        ![p].i = byteChunkSize,
        ![p].pc = "encodeDigit"]
  /\ UNCHANGED <<encodeTable, decodeTable>>

\* the inner loop filling the 5 slots front to back: least significant digit first
EncodeDigitLsbFirst(p) ==
  LET c == calls[p] IN
  /\ c.kind = "Encode" /\ c.pc = "encodeDigit" /\ c.i >= 0
  /\ calls' = [calls EXCEPT
        ![p].result[c.destination + (byteChunkSize - c.i) + 1] =
            encodeTable[EncodeDigitIndex(c.value) + 1],
        ![p].value = EncodeValueDiv(c.value),
        ![p].i = c.i - 1]
  /\ UNCHANGED <<encodeTable, decodeTable>>

\* the inner loop reusing the caller's buffer: it also stores the character
\* over the source bytes
EncodeDigitInPlace(p) ==
  LET c == calls[p] IN
  /\ c.kind = "Encode" /\ c.pc = "encodeDigit" /\ c.i >= 0
  /\ calls' = [calls EXCEPT
        ![p].result[c.destination + c.i + 1] = encodeTable[EncodeDigitIndex(c.value) + 1],
        ![p].input[c.source + (IF c.i = 0 THEN 1 ELSE c.i)] =
            encodeTable[EncodeDigitIndex(c.value) + 1],
        ![p].value = EncodeValueDiv(c.value),
        ![p].i = c.i - 1]
  /\ UNCHANGED <<encodeTable, decodeTable>>

\* lines 100-104: one pass of the inner loop
EncodeDigit(p) ==
  LET c == calls[p] IN
  /\ c.kind = "Encode" /\ c.pc = "encodeDigit" /\ c.i >= 0
  /\ calls' = [calls EXCEPT
        ![p].result[c.destination + c.i + 1] = encodeTable[EncodeDigitIndex(c.value) + 1],
        ![p].value = EncodeValueDiv(c.value),
        ![p].i = c.i - 1]
  /\ UNCHANGED <<encodeTable, decodeTable>>

\* lines 106-107 and the chunkIndex++ of line 96
EncodeChunkEnd(p) ==
  LET c == calls[p] IN
  /\ c.kind = "Encode" /\ c.pc = "encodeDigit" /\ c.i < 0
  /\ calls' = [calls EXCEPT
        ![p].destination = c.destination + encodedChunkSize,
        ![p].source = c.source + byteChunkSize,
        ![p].chunkIndex = c.chunkIndex + 1,
        ![p].pc = "encodeLoop"]
  /\ UNCHANGED <<encodeTable, decodeTable>>

\* line 110: return string(result), nil
EncodeReturn(p) ==
  LET c == calls[p] IN
  /\ c.kind = "Encode" /\ c.pc = "encodeLoop" /\ ~(c.chunkIndex < c.chunkCount)
  /\ Return(p, c.result, NilErr)
  /\ UNCHANGED <<encodeTable, decodeTable>>

(* ------------------------------- Decode -------------------------------- *)

\* sourceLen / encodedChunkSize
DecodeChunkCount(sourceLen) == sourceLen \div encodedChunkSize

\* sourceLen != chunkCount*encodedChunkSize
DecodeLengthInvalid(sourceLen) ==
  sourceLen # DecodeChunkCount(sourceLen) * encodedChunkSize

\* the range check without its upper half
DecodeOutOfRangeNoUpper(charByte) == charByte < decodeOffset

\* charByte < decodeOffset || charByte > decodeMaxValue
DecodeOutOfRange(charByte) == charByte < decodeOffset \/ charByte > decodeMaxValue

\* charByte-decodeOffset in byte arithmetic: the index into decodeTable
DecodeTableIndex(charByte) == (charByte - decodeOffset) % ByteMod

\* chunkIndex*encodedChunkSize + i
InvalidBytePosition(chunkIndex, i) == chunkIndex * encodedChunkSize + i

\* the accumulation done in a uint16
DecodeAccumulate16(value, encodedValue) ==
  <<0, WideMulAdd(value, codeSize, encodedValue)[2]>>

\* the accumulation that stays at 2^32 - 1 once the sum exceeds it
DecodeAccumulateSaturating(value, encodedValue) ==
  LET w == WideMulAdd(value, codeSize, encodedValue)
  IN IF w[1] >= Half THEN <<Half - 1, Half - 1>> ELSE w

\* value*codeSize + uint32(encodedValue) in uint32
DecodeAccumulate(value, encodedValue) == Wrap32(WideMulAdd(value, codeSize, encodedValue))

\* an error return that hands out what has been decoded so far
DecodeFailPartial(p, err) == Return(p, calls[p].result, err)

\* lines 130 and 135: return nil, &ErrInvalidByte{...}  (a nil slice: no bytes)
DecodeFail(p, err) == Return(p, <<>>, err)

\* lines 116-124: the length check and the allocation of the result
DecodeEnter(p) ==
  LET c == calls[p]
      sourceLen == Len(c.input)
      chunkCount == DecodeChunkCount(sourceLen)
  IN /\ c.kind = "Decode" /\ c.pc = "start"
     /\ IF DecodeLengthInvalid(sourceLen)
        THEN Return(p, <<>>, ErrInvalidLength(encodedChunkSize))
        ELSE calls' = [calls EXCEPT ![p].chunkCount = chunkCount,
                                    ![p].result = MakeBytes(sourceLen - chunkCount),
                                    ![p].destination = 0,
                                    ![p].chunkIndex = 0,
                                    ![p].pc = "decodeLoop"]
     /\ UNCHANGED <<encodeTable, decodeTable>>

\* lines 125-127: the loop test and the start of the inner loop
DecodeChunkBegin(p) ==
  LET c == calls[p] IN
  /\ c.kind = "Decode" /\ c.pc = "decodeLoop" /\ c.chunkIndex < c.chunkCount
  /\ calls' = [calls EXCEPT ![p].value = U32Zero, ![p].i = 0, ![p].pc = "decodeChar"]
  /\ UNCHANGED <<encodeTable, decodeTable>>

\* lines 128-138: one pass of the inner loop.  An index outside decodeTable is
\* a run-time panic of Go; the call then ends in pc = "panic".
DecodeChar(p) ==
  LET c == calls[p]
      charByte == c.input[c.source + c.i + 1]
      index == DecodeTableIndex(charByte)
      invalid == ErrInvalidByte(InvalidBytePosition(c.chunkIndex, c.i), charByte)
  IN /\ c.kind = "Decode" /\ c.pc = "decodeChar" /\ c.i < encodedChunkSize
     /\ IF DecodeOutOfRange(charByte)
        THEN DecodeFail(p, invalid)
        ELSE IF index >= Len(decodeTable)
        THEN calls' = [calls EXCEPT ![p].pc = "panic"]
        ELSE IF decodeTable[index + 1] = ivEc
        THEN DecodeFail(p, invalid)
        ELSE calls' = [calls EXCEPT
                ![p].value = DecodeAccumulate(c.value, decodeTable[index + 1]),
                ![p].i = c.i + 1]
     /\ UNCHANGED <<encodeTable, decodeTable>>

\* the end of a chunk without source = source[encodedChunkSize:]
DecodeChunkEndSameSource(p) ==
  LET c == calls[p] IN
  /\ c.kind = "Decode" /\ c.pc = "decodeChar" /\ ~(c.i < encodedChunkSize)
  /\ calls' = [calls EXCEPT
        ![p].result = BigEndianPutUint32(c.result, c.destination, c.value),
        ![p].destination = c.destination + byteChunkSize,
        ![p].chunkIndex = c.chunkIndex + 1,
        ![p].pc = "decodeLoop"]
  /\ UNCHANGED <<encodeTable, decodeTable>>

\* lines 141-144 and the chunkIndex++ of line 125
DecodeChunkEnd(p) ==
  LET c == calls[p] IN
  /\ c.kind = "Decode" /\ c.pc = "decodeChar" /\ ~(c.i < encodedChunkSize)
  /\ calls' = [calls EXCEPT
        ![p].result = BigEndianPutUint32(c.result, c.destination, c.value),
        ![p].destination = c.destination + byteChunkSize,
        ![p].source = c.source + encodedChunkSize,
        ![p].chunkIndex = c.chunkIndex + 1,
        ![p].pc = "decodeLoop"]
  /\ UNCHANGED <<encodeTable, decodeTable>>

\* line 147: return result, nil
DecodeReturn(p) ==
  LET c == calls[p] IN
  /\ c.kind = "Decode" /\ c.pc = "decodeLoop" /\ ~(c.chunkIndex < c.chunkCount)
  /\ Return(p, c.result, NilErr)
  /\ UNCHANGED <<encodeTable, decodeTable>>

(* ------------------------------- caller -------------------------------- *)

\* TestGeneral, lines 64-73: the text Encode returned without error is handed
\* to Decode; testSlice keeps the bytes that were encoded
RoundTrip(p) ==
  LET c == calls[p] IN
  /\ c.kind = "Encode" /\ c.pc = "done" /\ c.err = NilErr
  /\ calls' = [calls EXCEPT ![p] = NewCall("Decode", c.ret, c.input, TRUE)]
  /\ UNCHANGED <<encodeTable, decodeTable>>

\* A caller hands the bytes Decode returned without error, for a text the
\* caller had given it directly, to Encode; testSlice keeps that text.
ReEncode(p) ==
  LET c == calls[p] IN
  /\ c.kind = "Decode" /\ c.pc = "done" /\ c.err = NilErr /\ ~c.chained
  /\ calls' = [calls EXCEPT
        ![p] = [NewCall("Encode", c.ret, c.input, FALSE) EXCEPT !.reencoded = TRUE]]
  /\ UNCHANGED <<encodeTable, decodeTable>>

(* ---------------------------- specifications --------------------------- *)

\* the ids of the calls in progress
Calls == DOMAIN calls

\* one step of one of the calls
NextConc ==
  \/ \E p \in Calls : EncodeEnter(p)
  \/ \E p \in Calls : EncodeChunkBegin(p)
  \/ \E p \in Calls : EncodeDigit(p)
  \/ \E p \in Calls : EncodeChunkEnd(p)
  \/ \E p \in Calls : EncodeReturn(p)
  \/ \E p \in Calls : DecodeEnter(p)
  \/ \E p \in Calls : DecodeChunkBegin(p)
  \/ \E p \in Calls : DecodeChar(p)
  \/ \E p \in Calls : DecodeChunkEnd(p)
  \/ \E p \in Calls : DecodeReturn(p)

Next ==
  \/ NextConc
  \/ \E p \in Calls : RoundTrip(p)
  \/ \E p \in Calls : ReEncode(p)

\* one call at a time, and the decoding of what it encoded
Spec == Init /\ [][Next]_vars

\* NumCalls calls running concurrently, interleaved step by step
SpecConc == InitConc /\ [][NextConc]_vars

(* ------------------------- a call run alone ---------------------------- *)
(* Encode and Decode as functions of their argument: the same code, run    *)
(* from entry to return with nothing else running and the tables as the    *)
(* package initialises them.                                               *)

RECURSIVE EncodeDigitsAlone(_, _, _)
\* lines 100-104: the inner loop from i down to 0 on the 5 slots of a chunk
EncodeDigitsAlone(value, i, destination) ==
  IF i >= 0
  THEN EncodeDigitsAlone(
         EncodeValueDiv(value), i - 1,
         [destination EXCEPT ![i + 1] = encodeTableLiteral[EncodeDigitIndex(value) + 1]])
  ELSE destination

RECURSIVE EncodeLoopAlone(_, _, _)
\* lines 96-108: the loop over the chunks
EncodeLoopAlone(source, chunkIndex, chunkCount) ==
  IF chunkIndex < chunkCount
  THEN EncodeDigitsAlone(BigEndianUint32(SubSeq(source, 1, byteChunkSize)),
                         byteChunkSize, MakeBytes(encodedChunkSize))
       \o EncodeLoopAlone(SubSeq(source, byteChunkSize + 1, Len(source)),
                          chunkIndex + 1, chunkCount)
  ELSE <<>>

\* Encode(source)
EncodeAlone(source) ==
  LET sourceLen == Len(source) IN
  IF EncodeLengthInvalid(sourceLen)
  THEN [pc |-> "done", ret |-> <<>>, err |-> ErrInvalidLength(byteChunkSize)]
  ELSE [pc |-> "done",
        ret |-> EncodeLoopAlone(source, 0, ShiftRight(sourceLen, byteChunkShift)),
        err |-> NilErr]

RECURSIVE DecodeCharsAlone(_, _, _, _)
\* lines 127-139: the inner loop from i on; what it ends with
DecodeCharsAlone(source, chunkIndex, i, value) ==
  IF i < encodedChunkSize
  THEN LET charByte == source[i + 1]
           index == DecodeTableIndex(charByte)
           invalid == ErrInvalidByte(InvalidBytePosition(chunkIndex, i), charByte)
       IN IF DecodeOutOfRange(charByte)
          THEN [pc |-> "done", value |-> value, err |-> invalid]
          ELSE IF index >= Len(decodeTableLiteral)
          THEN [pc |-> "panic", value |-> value, err |-> NilErr]
          ELSE IF decodeTableLiteral[index + 1] = ivEc
          THEN [pc |-> "done", value |-> value, err |-> invalid]
          ELSE DecodeCharsAlone(source, chunkIndex, i + 1,
                                DecodeAccumulate(value, decodeTableLiteral[index + 1]))
  ELSE [pc |-> "done", value |-> value, err |-> NilErr]

RECURSIVE DecodeLoopAlone(_, _, _)
\* lines 125-145: the loop over the chunks
DecodeLoopAlone(source, chunkIndex, chunkCount) ==
  IF chunkIndex < chunkCount
  THEN LET chunk == DecodeCharsAlone(source, chunkIndex, 0, U32Zero)
           rest == DecodeLoopAlone(SubSeq(source, encodedChunkSize + 1, Len(source)),
                                   chunkIndex + 1, chunkCount)
       IN IF chunk.pc = "panic" THEN [pc |-> "panic", ret |-> <<>>, err |-> NilErr]
          ELSE IF chunk.err # NilErr THEN [pc |-> "done", ret |-> <<>>, err |-> chunk.err]
          ELSE IF rest.pc = "panic" \/ rest.err # NilErr THEN rest
          ELSE [pc |-> "done",
                ret |-> BigEndianPutUint32(MakeBytes(byteChunkSize), 0, chunk.value) \o rest.ret,
                err |-> NilErr]
  ELSE [pc |-> "done", ret |-> <<>>, err |-> NilErr]

\* Decode(source)
DecodeAlone(source) ==
  LET sourceLen == Len(source) IN
  IF DecodeLengthInvalid(sourceLen)
  THEN [pc |-> "done", ret |-> <<>>, err |-> ErrInvalidLength(encodedChunkSize)]
  ELSE DecodeLoopAlone(source, 0, DecodeChunkCount(sourceLen))

(* ------------------------- reference notions --------------------------- *)
(* What the claims are stated with.  None of it is read by the actions.    *)

\* the Z85 alphabet: value -> character
Alphabet == encodeTableLiteral

\* c is one of the 85 characters of the alphabet
InAlphabet(c) == \E d \in 0..(codeSize - 1) : Alphabet[d + 1] = c

\* the base-85 digit a character of the alphabet stands for
DigitOf(c) == CHOOSE d \in 0..(codeSize - 1) : Alphabet[d + 1] = c

\* the number held in 4 bytes, most significant byte first
RefBytesValue(b) == <<b[1] * ByteMod + b[2], b[3] * ByteMod + b[4]>>

\* the 4 bytes of a number below 2^32, most significant byte first
RefValueBytes(v) == <<v[1] \div ByteMod, v[1] % ByteMod, v[2] \div ByteMod, v[2] % ByteMod>>

RECURSIVE RefDivPow(_, _)
\* v div 85^j
RefDivPow(v, j) ==
  IF j = 0 THEN v
  ELSE RefDivPow(<<v[1] \div 85, (((v[1] % 85) * Half) + v[2]) \div 85>>, j - 1)

\* v mod 85
RefMod85(v) == (((v[1] % 85) * Half) + v[2]) % 85

\* d_j = (v div 85^j) mod 85
RefDigit(v, j) == RefMod85(RefDivPow(v, j))

\* w * 85 + d, not cut to 32 bits
RefMulAdd(w, d) ==
  LET lo == w[2] * 85 + d IN <<w[1] * 85 + (lo \div Half), lo % Half>>

RECURSIVE RefGroupValue(_, _)
\* the sum of digit_i * 85^(n-1-i) over the first n characters of a group, not
\* cut to 32 bits: ((d_0 * 85 + d_1) * 85 + ...) + d_(n-1)
RefGroupValue(g, n) ==
  IF n = 0 THEN <<0, 0>>
  ELSE RefMulAdd(RefGroupValue(g, n - 1), DigitOf(g[n]))

\* a number is at most 2^32 - 1
FitsUint32(w) == w[1] < Half

\* chunk k (from 0) of a sequence cut into chunks of n
Chunk(s, k, n) == SubSeq(s, k * n + 1, k * n + n)

\* the positions (from 0) of the bytes of a text that are not in the alphabet
InvalidPositions(t) == {k \in 0..(Len(t) - 1) : ~InAlphabet(t[k + 1])}

\* the least element of a non-empty set of numbers
Least(S) == CHOOSE m \in S : \A n \in S : m <= n

\* the calls that have returned
Returned == {p \in Calls : calls[p].pc = "done"}
Encodes == {p \in Calls : calls[p].kind = "Encode"}
Decodes == {p \in Calls : calls[p].kind = "Decode"}

(* ------------------------------- claims -------------------------------- *)

\* C1: round trip.  Encode of a byte sequence whose length is a multiple of 4
\* (the empty one included) returns no error, and Decode of the text it
\* returned returns no error and the same bytes.
C1_RoundTrip ==
  \A p \in Calls :
    LET c == calls[p] IN
    /\ (c.kind = "Encode" /\ c.pc = "done" /\ Len(c.input) % 4 = 0) => c.err = NilErr
    /\ c.chained => c.pc # "panic"
    /\ (c.chained /\ c.pc = "done") => (c.err = NilErr /\ c.ret = c.testSlice)

\* C1 witness: the decoding of the text of the 8 bytes of clearTheOne has
\* returned them
C1_Witness ==
  \E p \in Returned :
    calls[p].chained /\ calls[p].testSlice = clearTheOne /\ calls[p].ret = clearTheOne

\* C2: Encode of 4n bytes returns no error and 5n characters; characters
\* 5k..5k+4 are alphabet[d4], ..., alphabet[d0] with d_j = (v div 85^j) mod 85
\* and v the big-endian value of bytes 4k..4k+3.  The two test vectors encode
\* to "HelloWorld" and "TiHakrwLi!".
C2_EncodeReference ==
  \A p \in Returned \cap Encodes :
    LET c == calls[p]
        n == Len(c.input) \div 4
    IN Len(c.input) % 4 = 0 =>
         /\ c.err = NilErr
         /\ Len(c.ret) = 5 * n
         /\ \A k \in 0..(n - 1) : \A j \in 0..4 :
              c.ret[5 * k + (4 - j) + 1]
                = Alphabet[RefDigit(RefBytesValue(Chunk(c.input, k, 4)), j) + 1]
         /\ (c.input = <<>>) => (c.ret = <<>>)
         /\ (c.input = clearTheOne) => (c.ret = encodedTheOne)
         /\ (c.input = clearTheTwo) => (c.ret = encodedTheTwo)

\* C2 witness: Encode has returned for the 8 bytes of the first test vector
C2_Witness ==
  \E p \in Returned \cap Encodes :
    calls[p].input = clearTheOne /\ calls[p].ret = encodedTheOne

\* every character of t is in the alphabet and every group of 5 has a value
\* of at most 2^32 - 1
InRangeText(t) ==
  /\ Len(t) % 5 = 0
  /\ InvalidPositions(t) = {}
  /\ \A k \in 0..((Len(t) \div 5) - 1) : FitsUint32(RefGroupValue(Chunk(t, k, 5), 5))

\* C3: Decode of a text of 5n alphabet characters whose groups all have a
\* value V <= 2^32 - 1 returns no error and 4n bytes; bytes 4k..4k+3 are V of
\* group k, most significant byte first.  "HelloWorld" and "khpb9ZWRsz"
\* decode to the bytes of the test vectors.
C3_DecodeReference ==
  \A p \in Decodes :
    LET c == calls[p]
        n == Len(c.input) \div 5
    IN InRangeText(c.input) =>
         /\ c.pc # "panic"
         /\ c.pc = "done" =>
              /\ c.err = NilErr
              /\ Len(c.ret) = 4 * n
              /\ \A k \in 0..(n - 1) :
                   Chunk(c.ret, k, 4) = RefValueBytes(RefGroupValue(Chunk(c.input, k, 5), 5))
              /\ (c.input = <<>>) => (c.ret = <<>>)
              /\ (c.input = encodedTheOne) => (c.ret = clearTheOne)
              /\ (c.input = encodedTheThree)
                   => (c.ret = <<62, 220, 112, 210, 191, 241, 1, 27>>)

\* C3 witness: Decode has returned for "khpb9ZWRsz", given to it directly
C3_Witness ==
  \E p \in Returned \cap Decodes :
    /\ ~calls[p].chained
    /\ calls[p].input = encodedTheThree
    /\ calls[p].ret = <<62, 220, 112, 210, 191, 241, 1, 27>>

\* C4: Encode returns InvalidLength(4) exactly when the length of its input
\* is not a multiple of 4, Decode InvalidLength(5) exactly when it is not a
\* multiple of 5, whatever the input contains.
C4_LengthLaws ==
  \A p \in Returned :
    LET c == calls[p] IN
    /\ c.kind = "Encode" =>
         ((c.err = ErrInvalidLength(4)) <=> (Len(c.input) % 4 # 0))
    /\ c.kind = "Decode" =>
         ((c.err = ErrInvalidLength(5)) <=> (Len(c.input) % 5 # 0))
    /\ IsErrInvalidLength(c.err) =>
         c.err.divisor = (IF c.kind = "Encode" THEN 4 ELSE 5)
    /\ Len(c.input) = 0 => ~IsErrInvalidLength(c.err)

\* C4 witness: Decode has returned InvalidLength(5) for a text whose length is
\* not a multiple of 5 and that holds a character outside the alphabet
C4_Witness ==
  \E p \in Returned \cap Decodes :
    /\ Len(calls[p].input) % 5 # 0
    /\ InvalidPositions(calls[p].input) # {}
    /\ calls[p].err = ErrInvalidLength(5)

\* C5: Decode of a text whose length is a multiple of 5 and that holds a byte
\* outside the alphabet returns InvalidByte(position, character) for the
\* first such byte, and no lookup is made outside decodeTable.
C5_InvalidBytePosition ==
  \A p \in Decodes :
    LET c == calls[p]
        bad == InvalidPositions(c.input)
    IN /\ c.pc # "panic"
       /\ (c.pc = "done" /\ Len(c.input) % 5 = 0 /\ bad # {}) =>
            c.err = ErrInvalidByte(Least(bad), c.input[Least(bad) + 1])

\* C5 witness: Decode has returned for "123455432112,45", whose first byte
\* outside the alphabet is ',' in the third chunk
C5_Witness ==
  \E p \in Returned \cap Decodes :
    /\ Len(calls[p].input) = 15
    /\ calls[p].chunkIndex = 2
    /\ calls[p].err = ErrInvalidByte(12, 44)

\* C6: a call that returns an error returns an empty output with it, also
\* when earlier chunks had been transformed; a call that returns no error
\* returns 5 characters (Encode) or 4 bytes (Decode) per chunk of its input.
C6_AllOrNothing ==
  \A p \in Returned :
    LET c == calls[p] IN
    /\ c.err # NilErr => c.ret = <<>>
    /\ (c.err = NilErr /\ c.kind = "Encode") =>
         (Len(c.input) % 4 = 0 /\ Len(c.ret) = 5 * (Len(c.input) \div 4))
    /\ (c.err = NilErr /\ c.kind = "Decode") =>
         (Len(c.input) % 5 = 0 /\ Len(c.ret) = 4 * (Len(c.input) \div 5))

\* C6 witness: Decode has returned an error after it had written the bytes
\* of an earlier chunk to its result
C6_Witness ==
  \E p \in Returned \cap Decodes :
    /\ calls[p].err # NilErr
    /\ calls[p].chunkIndex > 0
    /\ \E k \in 1..Len(calls[p].result) : calls[p].result[k] # 0
    /\ calls[p].ret = <<>>

\* C7: IsErrInvalidLength holds of the error of a call exactly when the
\* length of its input was wrong, IsErrInvalidByte exactly when the call was
\* a Decode of a text of the right length with a byte outside the alphabet;
\* never both, neither for the nil error, and never IsErrInvalidByte for Encode.
C7_ErrorClassification ==
  \A p \in Returned :
    LET c == calls[p]
        badLength == Len(c.input) % (IF c.kind = "Encode" THEN 4 ELSE 5) # 0
        badByte == c.kind = "Decode" /\ ~badLength /\ InvalidPositions(c.input) # {}
    IN /\ IsErrInvalidLength(c.err) <=> badLength
       /\ IsErrInvalidByte(c.err) <=> badByte
       /\ ~(IsErrInvalidLength(c.err) /\ IsErrInvalidByte(c.err))
       /\ c.err = NilErr => (~IsErrInvalidLength(c.err) /\ ~IsErrInvalidByte(c.err))
       /\ c.kind = "Encode" => ~IsErrInvalidByte(c.err)

\* C7 witness: a Decode has returned an error that IsErrInvalidByte
\* recognises and IsErrInvalidLength does not
C7_Witness ==
  \E p \in Returned \cap Decodes :
    IsErrInvalidByte(calls[p].err) /\ ~IsErrInvalidLength(calls[p].err)

\* what call p would return when run alone on its input
Alone(p) ==
  IF calls[p].kind = "Encode" THEN EncodeAlone(calls[p].input)
  ELSE DecodeAlone(calls[p].input)

\* the tables hold what the package initialised them with
TablesIntact == encodeTable = encodeTableLiteral /\ decodeTable = decodeTableLiteral

\* every call that has ended has ended as it would have when run alone
ResultsAsAlone ==
  \A p \in Calls :
    calls[p].pc \in {"done", "panic"} =>
      [pc |-> calls[p].pc, ret |-> calls[p].ret, err |-> calls[p].err] = Alone(p)

\* C8: in every interleaving of concurrent Encode and Decode calls the two
\* tables are never written, no call changes the input its caller gave it, and
\* every call returns what it returns when run alone on that input.
C8_PureUnderConcurrency ==
  /\ [](TablesIntact /\ ResultsAsAlone)
  /\ [][/\ encodeTable' = encodeTable
        /\ decodeTable' = decodeTable
        /\ \A p \in Calls : calls'[p].input = calls[p].input]_vars

\* C8 witness: an Encode and a Decode that ran concurrently, their steps
\* interleaved, have both returned
C8_Witness ==
  \E p \in Returned \cap Encodes : \E q \in Returned \cap Decodes :
    /\ calls[p].input = clearTheOne /\ calls[p].ret = encodedTheOne
    /\ calls[q].input = encodedTheOne /\ calls[q].ret = clearTheOne

RECURSIVE RebuiltTable(_, _)
\* the table after table[alphabet[v] - '!'] = v has been done for the values
\* below n, starting from t
RebuiltTable(t, n) ==
  IF n = 0 THEN t
  ELSE [RebuiltTable(t, n - 1) EXCEPT ![Alphabet[n] - decodeOffset + 1] = n - 1]

\* dt is the exact inverse of the alphabet et, over the codes '!'..'}'
ReverseOf(dt, et) ==
  /\ Len(dt) = 93
  /\ Len(et) = 85
  /\ \A v, w \in 0..84 : et[v + 1] = et[w + 1] => v = w
  /\ \A v \in 0..84 : et[v + 1] \in 33..125
  /\ \A c \in 33..125 : \A v \in 0..84 : (dt[c - 33 + 1] = v) <=> (et[v + 1] = c)
  /\ {c \in 33..125 : dt[c - 33 + 1] \notin 0..84} = {34, 39, 44, 59, 92, 95, 96, 124}
  /\ \A c \in {34, 39, 44, 59, 92, 95, 96, 124} : dt[c - 33 + 1] = 255
  /\ dt = RebuiltTable([k \in 1..93 |-> 255], 85)

\* the two tables as written in the source are inverse to each other
LiteralsInverse == ReverseOf(decodeTableLiteral, encodeTableLiteral)

\* C9: decodeTable has 93 entries for the codes '!'..'}', decodeMaxValue is
\* '}', decodeTable[c - '!'] = v exactly when encodeTable[v] = c, the other
\* entries (those of the 8 characters " ' , ; \ _ ` |) are 0xFF, the table is
\* the one built from the alphabet, and the 85 characters are distinct.
C9_ReverseTable ==
  /\ decodeTable = decodeTableLiteral
  /\ encodeTable = encodeTableLiteral
  /\ decodeMaxValue = 125
  /\ LiteralsInverse

\* C9 witness: a Decode has looked up ',' (an entry left at 0xFF) and has
\* returned InvalidByte for it, after looking up the digits before it
C9_Witness ==
  \E p \in Returned \cap Decodes :
    /\ IsErrInvalidByte(calls[p].err)
    /\ calls[p].err.value = 44
    /\ calls[p].err.position > 0

\* C10: while Decode processes the 5 characters Encode produced for a 32-bit
\* value v, value*85 + digit is at most 2^32 - 1 at each of the 5 steps (the
\* accumulator is the sum so far, never cut), and the final accumulator is v.
C10_NoWraparound ==
  \A p \in Decodes :
    LET c == calls[p]
        group == Chunk(c.input, c.chunkIndex, 5)
    IN (c.chained /\ c.pc = "decodeChar") =>
         /\ c.value = RefGroupValue(group, c.i)
         /\ c.i < 5 =>
              FitsUint32(RefMulAdd(c.value, decodeTable[group[c.i + 1] - 33 + 1]))
         /\ c.i = 5 => c.value = RefBytesValue(Chunk(c.testSlice, c.chunkIndex, 4))

\* C10 witness: Decode has processed the 5 characters of v = 2^32 - 1
C10_Witness ==
  \E p \in Decodes :
    /\ calls[p].chained /\ calls[p].pc = "decodeChar" /\ calls[p].i = 5
    /\ calls[p].value = <<65535, 65535>>

\* a number modulo 2^32
RefMod32(w) == <<w[1] % Half, w[2]>>

\* "%nSc1", the group of value 2^32, and "00000", the group of value 0
textTwoPow32 == <<37, 110, 83, 99, 49>>
textZero == <<48, 48, 48, 48, 48>>

\* t is made of whole groups of alphabet characters
AlphabetText(t) == Len(t) % 5 = 0 /\ InvalidPositions(t) = {}

\* the calls of Encode on the bytes Decode returned for the text testSlice
ReEncodes == {p \in Encodes : calls[p].reencoded}

\* C11: Decode of a group of alphabet characters whose value V is in
\* 2^32 .. 85^5 - 1 reports no error and returns the 4 big-endian bytes of
\* V mod 2^32 ("%nSc1" and "00000" both give 00 00 00 00, so Decode is not
\* injective); Encode of what Decode returned for an alphabet-only text s is
\* s when every group of s has V <= 2^32 - 1 and is not s otherwise.
C11_SilentTruncation ==
  /\ \A p \in Decodes :
       LET c == calls[p]
           n == Len(c.input) \div 5
       IN AlphabetText(c.input) =>
            /\ c.pc # "panic"
            /\ c.pc = "done" =>
                 /\ c.err = NilErr
                 /\ Len(c.ret) = 4 * n
                 /\ \A k \in 0..(n - 1) :
                      LET V == RefGroupValue(Chunk(c.input, k, 5), 5)
                      IN ~FitsUint32(V) => Chunk(c.ret, k, 4) = RefValueBytes(RefMod32(V))
                 /\ c.input \in {textTwoPow32, textZero} => c.ret = <<0, 0, 0, 0>>
  /\ \A p \in Returned \cap ReEncodes :
       LET c == calls[p] IN
       /\ c.err = NilErr
       /\ AlphabetText(c.testSlice)
       /\ (c.ret = c.testSlice) <=> InRangeText(c.testSlice)

\* C11 witness: "%nSc1" has been decoded to 00 00 00 00 and these bytes have
\* been encoded to "00000", which is not the text that was decoded
C11_Witness ==
  \E p \in Returned \cap ReEncodes :
    /\ calls[p].testSlice = textTwoPow32
    /\ calls[p].input = <<0, 0, 0, 0>>
    /\ calls[p].ret = textZero

====
